---------------------------- MODULE Spec2Model ----------------------------
(***************************************************************************)
(* GPS route tracker (src/app.js): the Route domain model (Coordinate,     *)
(* haversine, Route and its metrics, Route.fromPlainObject) and the        *)
(* RouteDatabase persistence layer (#open, insertRoute, listRoutes) on top *)
(* of an IndexedDB object store "routes" {keyPath: "id", autoIncrement}.   *)
(*                                                                         *)
(* Units.  Latitudes and longitudes are hundredths of a degree, Date       *)
(* values are milliseconds since the epoch, JavaScript numbers are exact   *)
(* rationals n/d (d > 0, lowest terms) or one of NaN, +Infinity,           *)
(* -Infinity, so that x / 0 behaves as it does in JavaScript.              *)
(***************************************************************************)
EXTENDS Integers, Sequences, FiniteSets

(***************************************************************************)
(* Bounds of the model.                                                    *)
(***************************************************************************)
\* longest point sequence of a Route drawn as an input of the pure functions
MaxPoints == 2
\* largest id a caller-supplied route carries
MaxId == 2
\* number of RouteDatabase calls issued in one behaviour
MaxCalls == 3
\* most points of a Route handed to toHtml
MaxHtmlPoints == 11
\* humanizeSeconds is applied to every number of seconds up to MaxSeconds
\* and to the days/hours/minutes/seconds combinations below MaxDays + 1 days
MaxSeconds == 120
MaxDays == 1
\* tracking sessions started, stop requests (toggleTracking invoked while
\* tracking) and location events delivered in one behaviour
MaxSessions == 2
MaxStops == 2
MaxEvents == 2

(***************************************************************************)
(* JavaScript values.                                                      *)
(***************************************************************************)
Null == [t |-> "null", n |-> 0, d |-> 1]

Undefined == [t |-> "undefined", n |-> 0, d |-> 1]

NaN == [t |-> "nan", n |-> 0, d |-> 1]

PosInfinity == [t |-> "inf", n |-> 1, d |-> 1]

NegInfinity == [t |-> "inf", n |-> -1, d |-> 1]

Abs(x) == IF x < 0 THEN -x ELSE x

RECURSIVE GCD(_, _)
GCD(a, b) == IF b = 0 THEN a ELSE GCD(b, a % b)

\* the number n/d (d # 0), in lowest terms with a positive denominator
Rat(n, d) ==
    LET g == GCD(Abs(n), Abs(d))
        s == IF d < 0 THEN -1 ELSE 1
    IN [t |-> "num", n |-> (s * n) \div g, d |-> Abs(d) \div g]

Num(n) == [t |-> "num", n |-> n, d |-> 1]

\* a Date object holding the time value ms
DateOf(ms) == [t |-> "date", n |-> ms, d |-> 1]

\* Date.prototype.getTime
getTime(date) == Num(date.n)

\* ToBoolean: null, undefined, NaN and 0 are falsy; every object (a Date
\* included, whatever its time value) is truthy
Truthy(x) ==
    CASE x.t = "null" -> FALSE
      [] x.t = "undefined" -> FALSE
      [] x.t = "nan" -> FALSE
      [] x.t = "num" -> x.n # 0
      [] OTHER -> TRUE

\* x + y on numbers
JsAdd(x, y) ==
    CASE x.t = "num" /\ y.t = "num" -> Rat(x.n * y.d + y.n * x.d, x.d * y.d)
      [] x.t = "nan" \/ y.t = "nan" -> NaN
      [] x.t = "inf" /\ y.t = "inf" -> IF x.n = y.n THEN x ELSE NaN
      [] x.t = "inf" -> x
      [] OTHER -> y

\* x - y on finite numbers
JsSub(x, y) == Rat(x.n * y.d - y.n * x.d, x.d * y.d)

\* x / y on numbers: a division by zero yields NaN (0 / 0) or an infinity
JsDiv(x, y) ==
    CASE x.t = "nan" \/ y.t = "nan" -> NaN
      [] x.t = "inf" /\ y.t = "inf" -> NaN
      [] x.t = "inf" -> IF y.n < 0 THEN [x EXCEPT !.n = -x.n] ELSE x
      [] y.t = "inf" -> Num(0)
      [] y.n = 0 -> IF x.n = 0 THEN NaN
                    ELSE IF x.n > 0 THEN PosInfinity ELSE NegInfinity
      [] OTHER -> Rat(x.n * y.d, x.d * y.n)

(***************************************************************************)
(* Input domains.                                                          *)
(***************************************************************************)
Lats == {5200, 5201}

Lons == {1300, 1301}

\* time values (ms): the epoch and one minute later
Times == {0, 60000}

\* values of the wall clock read by `new Date()`
Clocks == {120000}

Ids == {Null} \cup {Num(i) : i \in 0..MaxId}

(***************************************************************************)
(* Coordinate and haversine.                                               *)
(***************************************************************************)
\* new Coordinate(lat, lon, timestamp) evaluated when the clock reads now
Coordinate(lat, lon, timestamp, now) ==
    LET ts == IF timestamp = Undefined THEN Null ELSE timestamp
    IN [lat |-> lat, lon |-> lon,
        timestamp |-> IF Truthy(ts) THEN ts ELSE DateOf(now)]

\* R * c in metres, rounded, for the points of Lats \X Lons
haversineMetres(pointA, pointB) ==
    CASE pointA.lat = pointB.lat /\ pointA.lon = pointB.lon -> 0
      [] pointA.lat = pointB.lat /\ pointA.lat = 5200 -> 685
      [] pointA.lat = pointB.lat -> 684
      [] pointA.lon = pointB.lon -> 1112
      [] OTHER -> 1306

\* haversine distance in km
haversine(pointA, pointB) == Rat(haversineMetres(pointA, pointB), 1000)

Coordinates ==
    {Coordinate(la, lo, DateOf(ts), 0) : la \in Lats, lo \in Lons, ts \in Times}

(***************************************************************************)
(* Route.                                                                  *)
(***************************************************************************)
\* new Route(id, created, coordinates) evaluated when the clock reads now;
\* coordinates is an array (always truthy), <<>> when the argument is absent
Route(id, created, coordinates, now) ==
    [id |-> IF id = Undefined THEN Null ELSE id,
     created |-> IF Truthy(created) THEN created ELSE DateOf(now),
     coordinates |-> coordinates]

RECURSIVE SumLegs(_, _)
SumLegs(coordinates, i) ==
    IF i > Len(coordinates) THEN Num(0)
    ELSE JsAdd(haversine(coordinates[i - 1], coordinates[i]),
               SumLegs(coordinates, i + 1))

getLength(route) ==
    IF Len(route.coordinates) < 2 THEN Num(0)
    ELSE SumLegs(route.coordinates, 2)

getDuration(route) ==
    IF Len(route.coordinates) < 2 THEN Num(0)
    ELSE JsDiv(JsSub(getTime(route.coordinates[Len(route.coordinates)].timestamp),
                     getTime(route.coordinates[1].timestamp)),
               Num(1000))

getAvgSpeedNoGuard(route) ==
    JsDiv(getLength(route), JsDiv(getDuration(route), Num(3600)))

getAvgSpeed(route) ==
    IF Len(route.coordinates) < 2 THEN Num(0)
    ELSE JsDiv(getLength(route), JsDiv(getDuration(route), Num(3600)))

\* obj.coordinates.map(coord => new Coordinate(coord.lat, coord.lon, coord.timestamp))
MapCoordinates(coords, now) ==
    [i \in 1..Len(coords) |->
        Coordinate(coords[i].lat, coords[i].lon, coords[i].timestamp, now)]

fromPlainObjectNoId(obj, now) ==
    Route(Null, obj.created, MapCoordinates(obj.coordinates, now), now)

fromPlainObject(obj, now) ==
    Route(obj.id, obj.created, MapCoordinates(obj.coordinates, now), now)

\* insertRoute's record: a shallow copy of the route, its id property
\* deleted (read back as undefined) when it is null
toPlainRecord(route) ==
    IF route.id = Null THEN [route EXCEPT !.id = Undefined] ELSE route


(***************************************************************************)
(* Formatting helpers, Route.add and Route.toHtml.  A string built from    *)
(* parts joined by ", " is the sequence of its parts.                      *)
(***************************************************************************)
\* Math.floor of a finite number
Floor(x) == x.n \div x.d

\* x % c (the remainder takes the sign of x) for a finite x and an integer c
JsRem(x, c) ==
    LET q == (Abs(x.n) \div (x.d * c)) * (IF x.n < 0 THEN -1 ELSE 1)
    IN Rat(x.n - q * c * x.d, x.d)

secondUnits ==
    <<[unit |-> "d", conversion |-> 86400],
      [unit |-> "h", conversion |-> 3600],
      [unit |-> "m", conversion |-> 60],
      [unit |-> "s", conversion |-> 1]>>

\* the loop of humanizeSeconds from unit i on: `${amount} ${unit}` is the
\* pair [amount, unit]
RECURSIVE humanizeLoop(_, _, _)
humanizeLoop(i, number, string) ==
    IF i > Len(secondUnits) THEN string
    ELSE LET conversion == secondUnits[i].conversion
             amount == Floor(JsDiv(number, Num(conversion)))
         IN humanizeLoop(i + 1, JsRem(number, conversion),
                         IF amount # 0
                         THEN Append(string, [amount |-> amount,
                                              unit |-> secondUnits[i].unit])
                         ELSE string)

RECURSIVE humanizeLoopKeepZero(_, _, _)
humanizeLoopKeepZero(i, number, string) ==
    IF i > Len(secondUnits) THEN string
    ELSE LET conversion == secondUnits[i].conversion
             amount == Floor(JsDiv(number, Num(conversion)))
         IN humanizeLoopKeepZero(i + 1, JsRem(number, conversion),
                                 Append(string, [amount |-> amount,
                                                 unit |-> secondUnits[i].unit]))

humanizeSecondsKeepZero(number) == humanizeLoopKeepZero(1, number, <<>>)

humanizeSeconds(number) == humanizeLoop(1, number, <<>>)

\* route.add(lat, lon, timestamp): add declares (lat, lon) only, so a third
\* argument is dropped and the Coordinate is built without a timestamp
add(route, lat, lon, timestamp, now) ==
    [route EXCEPT !.coordinates = Append(@, Coordinate(lat, lon, Undefined, now))]

\* Array.prototype.slice(start, end) with negative indices counted from the
\* end of the array
slice(arr, start, end) ==
    LET n == Len(arr)
        from == IF start < 0 THEN (IF n + start < 0 THEN 0 ELSE n + start)
                ELSE (IF start > n THEN n ELSE start)
        to == IF end < 0 THEN (IF n + end < 0 THEN 0 ELSE n + end)
              ELSE (IF end > n THEN n ELSE end)
    IN IF to <= from THEN <<>> ELSE SubSeq(arr, from + 1, to)

\* Array.prototype.reverse
reverse(arr) == [i \in 1..Len(arr) |-> arr[Len(arr) + 1 - i]]

\* Route.toHtml: the heading, the three metrics, the <li> items and the
\* "<li>...</li>" item, in the order they are rendered (the numbers as they
\* are before humanize rounds them to 2 fraction digits)
toHtml(route) ==
    [created |-> route.created,
     distance |-> getLength(route),
     duration |-> humanizeSeconds(getDuration(route)),
     avgSpeed |-> getAvgSpeed(route),
     items |-> reverse(slice(route.coordinates, -10, -1)),
     ellipsis |-> Len(route.coordinates) > 9]

\* the Routes the pure functions are applied to
RECURSIVE SeqsUpTo(_, _)
SeqsUpTo(S, n) ==
    IF n = 0 THEN {<<>>}
    ELSE LET shorter == SeqsUpTo(S, n - 1)
         IN shorter \cup {Append(q, x) : q \in shorter, x \in S}

Routes ==
    {Route(id, DateOf(cr), cs, 0) :
        id \in Ids, cr \in Times, cs \in SeqsUpTo(Coordinates, MaxPoints)}

(***************************************************************************)
(* State.                                                                  *)
(***************************************************************************)
VARIABLES
    clock,          \* the time value `new Date()` returns
    route,          \* the Route a pure function is applied to
    out,            \* the last pure function applied and what it returned
    seconds,        \* the number humanizeSeconds is applied to
    dbExists,       \* whether database "RoutesDB" and its store "routes" exist
    store,          \* object store "routes": key -> committed record
    keyGen,         \* the store's key generator (its current number)
    writer,         \* the caller whose readwrite transaction is active, 0 if none
    openConnections,\* connections opened and not closed
    calls,          \* per caller, the RouteDatabase call it has in flight
    nCalls,         \* RouteDatabase calls issued so far
    succeeded,      \* per insertRoute that resolved, in order: the key its record
                    \* was stored under, where the key came from, its points
    committedFrom,  \* per committed record, in order: the Route object it was
                    \* cloned from (0 when the route was passed by value)
    hasGeolocation, \* "geolocation" in navigator
    alerted,        \* the alert "Geolocation is not supported" has been shown
    isTracking,     \* let isTracking
    watchId,        \* let watchId (0 is null)
    currentRoute,   \* let currentRoute: a reference into routeObjects (0 is null)
    routeObjects,   \* the Route objects created by toggleTracking, by reference
    locationData,   \* let locationData
    watches,        \* the ids of the position watches that are registered
    status,         \* status.textContent
    button,         \* the toggleTracking button's textContent
    routeDescription, \* routeDescription.innerHTML
    previousRoutes, \* previousRoutes.innerHTML: the <h3> items rendered
    routesStats,    \* routesStats.innerHTML: the three totals rendered
    frames,         \* per toggleTracking invocation that stops: where it is
    nStops,         \* stop requests so far
    lastErrorAt     \* location events handled when the last location error
                    \* was reported (-1: none yet)

routeVars == <<clock, route, out, seconds>>

storeVars == <<dbExists, store, keyGen, writer, openConnections, calls,
               nCalls, succeeded, committedFrom>>

sessionVars == <<hasGeolocation, alerted, isTracking, watchId, currentRoute,
                 routeObjects, locationData, watches, status, button,
                 routeDescription, previousRoutes, routesStats, frames,
                 nStops, lastErrorAt>>

vars == <<clock, route, out, seconds, dbExists, store, keyGen, writer,
          openConnections, calls, nCalls, succeeded, committedFrom,
          hasGeolocation, alerted, isTracking, watchId, currentRoute,
          routeObjects, locationData, watches, status, button,
          routeDescription,
          previousRoutes, routesStats, frames, nStops, lastErrorAt>>

\* the toggleTracking invocations that may be suspended at the same time
Frames == {1, 2}

\* the RouteDatabase call slots of invocation f: `new RouteDatabase()` in
\* toggleTracking and in updatePreviousRoutesList
InsertSlot(f) == f

ListSlot(f) == f + 2

Slots == {InsertSlot(f) : f \in Frames} \cup {ListSlot(f) : f \in Frames}

IdleFrame == [pc |-> "idle", error |-> "", watch |-> 0]

NoStats == [totalLength |-> Num(0), totalDuration |-> <<>>, avgSpeed |-> Num(0)]

NoDescription == [created |-> Null, distance |-> Num(0), duration |-> <<>>,
                  avgSpeed |-> Num(0), items |-> <<>>, ellipsis |-> FALSE]

\* the callers that may have a RouteDatabase call in flight at the same time
Callers == {1, 2}

NoRecord == [id |-> Undefined, created |-> DateOf(0), coordinates |-> <<>>]

IdleCall ==
    [kind |-> "none", record |-> NoRecord, pc |-> "idle",
     outcome |-> "pending", value |-> Undefined, routes |-> <<>>,
     message |-> "", cause |-> "", failure |-> "",
     key |-> Null, keySrc |-> "none", genBefore |-> 0, committed |-> 0,
     ref |-> 0, after |-> 0]

NoOutput == [op |-> "none", value |-> Null]

InitStore ==
    /\ dbExists = FALSE
    /\ store = <<>>
    /\ keyGen = 1
    /\ writer = 0
    /\ openConnections = 0
    /\ calls = [c \in Callers |-> IdleCall]
    /\ nCalls = 0
    /\ succeeded = <<>>
    /\ committedFrom = <<>>

\* the module-level state of app.js before the first toggleTracking
InitIdleSession ==
    /\ alerted = FALSE
    /\ isTracking = FALSE
    /\ watchId = 0
    /\ currentRoute = 0
    /\ routeObjects = <<>>
    /\ locationData = <<>>
    /\ watches = {}
    /\ status = ""
    /\ button = ""
    /\ routeDescription = NoDescription
    /\ previousRoutes = <<>>
    /\ routesStats = NoStats
    /\ frames = [f \in Frames |-> IdleFrame]
    /\ nStops = 0
    /\ lastErrorAt = -1

(***************************************************************************)
(* The pure functions of Route, each applied to the Route drawn by         *)
(* InitRoute.                                                              *)
(***************************************************************************)
InitRoute ==
    /\ clock \in Clocks
    /\ route \in Routes
    /\ out = NoOutput
    /\ seconds = 0
    /\ InitStore
    /\ hasGeolocation = TRUE
    /\ InitIdleSession

ApplyGetLength ==
    /\ out.op = "none"
    /\ out' = [op |-> "getLength", value |-> getLength(route)]
    /\ UNCHANGED <<clock, route, seconds, storeVars, sessionVars>>

ApplyGetDuration ==
    /\ out.op = "none"
    /\ out' = [op |-> "getDuration", value |-> getDuration(route)]
    /\ UNCHANGED <<clock, route, seconds, storeVars, sessionVars>>

ApplyGetAvgSpeed ==
    /\ out.op = "none"
    /\ out' = [op |-> "getAvgSpeed", value |-> getAvgSpeed(route)]
    /\ UNCHANGED <<clock, route, seconds, storeVars, sessionVars>>

\* the record insertRoute builds from the route, read back by fromPlainObject
ApplyRoundTrip ==
    /\ out.op = "none"
    /\ out' = [op |-> "roundTrip",
               value |-> fromPlainObject(toPlainRecord(route), clock)]
    /\ UNCHANGED <<clock, route, seconds, storeVars, sessionVars>>

\* route.add(lat, lon, timestamp) with or without the third argument
ApplyAdd(lat, lon, timestamp) ==
    /\ out.op = "none"
    /\ out' = [op |-> "add",
               value |-> add(route, lat, lon, timestamp, clock),
               timestamp |-> timestamp]
    /\ UNCHANGED <<clock, route, seconds, storeVars, sessionVars>>

NextRoute ==
    \/ ApplyGetLength
    \/ ApplyGetDuration
    \/ ApplyGetAvgSpeed
    \/ ApplyRoundTrip
    \/ \E lat \in Lats, lon \in Lons,
          timestamp \in {Undefined} \cup {DateOf(ts) : ts \in Times} :
           ApplyAdd(lat, lon, timestamp)

SpecRoute == InitRoute /\ [][NextRoute]_vars

(***************************************************************************)
(* Route.toHtml applied to Routes of up to MaxHtmlPoints points.           *)
(***************************************************************************)
\* the i-th point of a track that starts at phase k of the grid: its
\* timestamp is i + k seconds after the epoch, so every point is distinct
TrackPoint(i, k) ==
    Coordinate(IF ((i + k) \div 2) % 2 = 0 THEN 5200 ELSE 5201,
               IF (i + k) % 2 = 0 THEN 1300 ELSE 1301,
               DateOf((i + k) * 1000), 0)

HtmlRoutes ==
    {Route(Null, DateOf(0), [i \in 1..n |-> TrackPoint(i, k)], 0) :
        n \in 0..MaxHtmlPoints, k \in 0..7}

InitHtml ==
    /\ clock \in Clocks
    /\ route \in HtmlRoutes
    /\ out = NoOutput
    /\ seconds = 0
    /\ InitStore
    /\ hasGeolocation = TRUE
    /\ InitIdleSession

ApplyToHtml ==
    /\ out.op = "none"
    /\ out' = [op |-> "toHtml", value |-> toHtml(route)]
    /\ UNCHANGED <<clock, route, seconds, storeVars, sessionVars>>

SpecHtml == InitHtml /\ [][ApplyToHtml]_vars

(***************************************************************************)
(* humanizeSeconds applied to non-negative whole numbers of seconds.       *)
(***************************************************************************)
SecondsInputs ==
    (0..MaxSeconds) \cup
    {dd * 86400 + hh * 3600 + mm * 60 + ss :
        dd \in 0..MaxDays, hh \in {0, 1, 23}, mm \in {0, 1, 59},
        ss \in {0, 1, 59}}

InitFormat ==
    /\ clock \in Clocks
    /\ route = Route(Null, DateOf(0), <<>>, 0)
    /\ out = NoOutput
    /\ seconds \in SecondsInputs
    /\ InitStore
    /\ hasGeolocation = TRUE
    /\ InitIdleSession

ApplyHumanizeSeconds ==
    /\ out.op = "none"
    /\ out' = [op |-> "humanizeSeconds", value |-> humanizeSeconds(Num(seconds))]
    /\ UNCHANGED <<clock, route, seconds, storeVars, sessionVars>>

SpecFormat == InitFormat /\ [][ApplyHumanizeSeconds]_vars

(***************************************************************************)
(* RouteDatabase on the IndexedDB object store.  A call is an async        *)
(* function: it suspends at `await this.#open()` (pc = "opening") and at   *)
(* the promise around its request (pc = "request").  insertRoute's promise *)
(* settles in the request's handler, before its readwrite transaction      *)
(* commits or aborts (pc = "committing").  Readwrite transactions on       *)
(* "routes" run one at a time, and no read runs beside one.                *)
(***************************************************************************)
\* the point sequences of the routes handed to insertRoute
Tracks ==
    {<<>>,
     <<Coordinate(5200, 1300, DateOf(0), 0),
       Coordinate(5201, 1301, DateOf(60000), 0)>>}

InsertInputs == {Route(id, DateOf(0), cs, 0) : id \in Ids, cs \in Tracks}

RECURSIVE SortedKeys(_)
SortedKeys(K) ==
    IF K = {} THEN <<>>
    ELSE LET k == CHOOSE x \in K : \A y \in K : x <= y
         IN <<k>> \o SortedKeys(K \ {k})

\* IDBObjectStore.getAll(): the committed records in ascending key order
getAll(st) ==
    LET keys == SortedKeys(DOMAIN st)
    IN [i \in 1..Len(keys) |-> st[keys[i]]]

\* the key store.add(record) stores the record under: the value at the key
\* path "id" when the record has one, the generator's current number if not
AddKey(record, gen) == IF record.id = Undefined THEN gen ELSE record.id.n

\* the generator after a record has been stored under key
NextKeyGen(record, key, gen) ==
    IF record.id = Undefined THEN gen + 1
    ELSE IF key >= gen THEN key + 1 ELSE gen

Settle(call, outcome, message, cause) ==
    [call EXCEPT !.outcome = outcome, !.message = message, !.cause = cause,
                 !.failure = cause]

\* routeDb.insertRoute(route), up to `await this.#open()`
BeginInsert(callsNow, c, r, ref) ==
    [callsNow EXCEPT ![c] =
        [IdleCall EXCEPT !.kind = "insert",
                         !.record = toPlainRecord(r),
                         !.ref = ref,
                         !.pc = "opening"]]

\* routeDb.listRoutes(), up to `await this.#open()`
BeginList(callsNow, c) ==
    [callsNow EXCEPT ![c] = [IdleCall EXCEPT !.kind = "list", !.pc = "opening",
                                           !.after = Len(succeeded)]]

\* store.add(route) clones the record when it is called: the shallow copy
\* `{ ...route }` shares the coordinates array of the Route object it was
\* made from, so the clone holds the points that array has by then
CloneForAdd(call) ==
    IF call.kind = "insert" /\ call.ref # 0
    THEN [call.record EXCEPT !.coordinates = routeObjects[call.ref].coordinates]
    ELSE call.record

\* insertRoute called with a route passed by value
InsertRoute(c, r) ==
    /\ calls[c].kind = "none"
    /\ nCalls < MaxCalls
    /\ calls' = BeginInsert(calls, c, r, 0)
    /\ nCalls' = nCalls + 1
    /\ UNCHANGED <<routeVars, sessionVars, committedFrom, dbExists, store, keyGen, writer,
                   openConnections, succeeded>>

\* routeDb.listRoutes(), up to `await this.#open()`
ListRoutes(c) ==
    /\ calls[c].kind = "none"
    /\ nCalls < MaxCalls
    /\ calls' = BeginList(calls, c)
    /\ nCalls' = nCalls + 1
    /\ UNCHANGED <<routeVars, sessionVars, committedFrom, dbExists, store, keyGen, writer,
                   openConnections, succeeded>>

\* #open: request.onsuccess (after onupgradeneeded has created the store when
\* the database is new); the caller resumes and issues its request
OpenSuccess(c) ==
    /\ calls[c].pc = "opening"
    /\ dbExists' = TRUE
    /\ openConnections' = openConnections + 1
    /\ calls' = [calls EXCEPT ![c].pc = "request",
                             ![c].record = CloneForAdd(calls[c])]
    /\ UNCHANGED <<routeVars, sessionVars, committedFrom, store, keyGen, writer, nCalls, succeeded>>

\* #open: request.onerror
OpenError(c) ==
    /\ calls[c].pc = "opening"
    /\ calls' = [calls EXCEPT ![c] =
                    [Settle(calls[c], "rejected", "Database error: ", "OpenError")
                        EXCEPT !.pc = "done"]]
    /\ UNCHANGED <<routeVars, sessionVars, committedFrom, dbExists, store, keyGen, writer,
                   openConnections, nCalls, succeeded>>

\* insertRoute: store.add(route) succeeds; request.onsuccess closes the
\* connection and resolves, and the async function returns (no value)
AddSuccess(c) ==
    LET call == calls[c]
        key == AddKey(call.record, keyGen)
    IN /\ call.kind = "insert"
       /\ call.pc = "request"
       /\ writer = 0
       /\ key \notin DOMAIN store
       /\ writer' = c
       /\ keyGen' = NextKeyGen(call.record, key, keyGen)
       /\ openConnections' = openConnections - 1
       /\ calls' = [calls EXCEPT ![c] =
                       [call EXCEPT !.pc = "committing",
                                    !.outcome = "resolved",
                                    !.value = Undefined,
                                    !.message = "Route added with id: ",
                                    !.key = Num(key),
                                    !.keySrc = IF call.record.id = Undefined
                                               THEN "generator" ELSE "supplied",
                                    !.genBefore = keyGen]]
       /\ succeeded' = Append(succeeded,
                               [key |-> key,
                                src |-> IF call.record.id = Undefined
                                        THEN "generator" ELSE "supplied",
                                coordinates |-> call.record.coordinates])
       /\ UNCHANGED <<routeVars, sessionVars, committedFrom, dbExists, store, nCalls>>

\* insertRoute: store.add(route) fails (the key is taken, or the write
\* fails); request.onerror closes the connection and rejects, and the
\* transaction aborts
AddError(c, cause) ==
    LET call == calls[c]
    IN /\ call.kind = "insert"
       /\ call.pc = "request"
       /\ writer = 0
       /\ cause = "ConstraintError" =>
              AddKey(call.record, keyGen) \in DOMAIN store
       /\ openConnections' = openConnections - 1
       /\ calls' = [calls EXCEPT ![c] =
                       [Settle(call, "rejected", "Error adding route: ", cause)
                           EXCEPT !.pc = "done"]]
       /\ UNCHANGED <<routeVars, sessionVars, committedFrom, dbExists, store, keyGen, writer, nCalls,
                      succeeded>>

\* the readwrite transaction of a resolved insertRoute commits its record
Commit(c) ==
    LET call == calls[c]
        key == call.key.n
        rec == [call.record EXCEPT !.id = call.key]
    IN /\ call.pc = "committing"
       /\ store' = [k \in DOMAIN store \cup {key} |->
                       IF k = key THEN rec ELSE store[k]]
       /\ writer' = 0
       /\ committedFrom' = Append(committedFrom, call.ref)
       /\ calls' = [calls EXCEPT ![c] =
                       [call EXCEPT !.pc = "done", !.committed = 1]]
       /\ UNCHANGED <<routeVars, sessionVars, dbExists, keyGen, openConnections, nCalls,
                      succeeded>>

\* the readwrite transaction of a resolved insertRoute aborts at commit
\* (no handler is registered on the transaction): the record and the
\* generator's step are rolled back
AbortOnCommit(c) ==
    LET call == calls[c]
    IN /\ call.pc = "committing"
       /\ keyGen' = call.genBefore
       /\ writer' = 0
       /\ calls' = [calls EXCEPT ![c] =
                       [call EXCEPT !.pc = "done", !.failure = "AbortError"]]
       /\ UNCHANGED <<routeVars, sessionVars, committedFrom, dbExists, store, openConnections, nCalls,
                      succeeded>>

\* listRoutes: store.getAll() succeeds; request.onsuccess resolves with the
\* reconstructed routes
GetAllSuccess(c) ==
    LET call == calls[c]
        found == getAll(store)
    IN /\ call.kind = "list"
       /\ call.pc = "request"
       /\ writer = 0
       /\ calls' = [calls EXCEPT ![c] =
                       [call EXCEPT !.pc = "done",
                                    !.outcome = "resolved",
                                    !.routes =
                                        [i \in 1..Len(found) |->
                                            fromPlainObject(found[i], clock)]]]
       /\ UNCHANGED <<routeVars, sessionVars, committedFrom, dbExists, store, keyGen, writer,
                      openConnections, nCalls, succeeded>>

\* listRoutes: store.getAll() fails; request.onerror rejects
GetAllError(c) ==
    LET call == calls[c]
    IN /\ call.kind = "list"
       /\ call.pc = "request"
       /\ writer = 0
       /\ calls' = [calls EXCEPT ![c] =
                       [Settle(call, "rejected", "Error listing routes", "ReadError")
                           EXCEPT !.pc = "done"]]
       /\ UNCHANGED <<routeVars, sessionVars, committedFrom, dbExists, store, keyGen, writer,
                      openConnections, nCalls, succeeded>>

\* the caller has consumed the settled promise and may call again
Return(c) ==
    /\ calls[c].pc = "done"
    /\ calls' = [calls EXCEPT ![c] = IdleCall]
    /\ UNCHANGED <<routeVars, sessionVars, committedFrom, dbExists, store, keyGen, writer,
                   openConnections, nCalls, succeeded>>

Init ==
    /\ clock \in Clocks
    /\ route = Route(Null, DateOf(0), <<>>, 0)
    /\ out = NoOutput
    /\ seconds = 0
    /\ InitStore
    /\ hasGeolocation = TRUE
    /\ InitIdleSession

Next ==
    \/ \E c \in Callers, r \in InsertInputs : InsertRoute(c, r)
    \/ \E c \in Callers : ListRoutes(c)
    \/ \E c \in Callers : OpenSuccess(c)
    \/ \E c \in Callers : OpenError(c)
    \/ \E c \in Callers : AddSuccess(c)
    \/ \E c \in Callers, cause \in {"ConstraintError", "UnknownError"} :
           AddError(c, cause)
    \/ \E c \in Callers : Commit(c)
    \/ \E c \in Callers : AbortOnCommit(c)
    \/ \E c \in Callers : GetAllSuccess(c)
    \/ \E c \in Callers : GetAllError(c)
    \/ \E c \in Callers : Return(c)

Spec == Init /\ [][Next]_vars

(***************************************************************************)
(* The tracking session: toggleTracking, the watchPosition callbacks and   *)
(* updatePreviousRoutesList.  A toggleTracking invocation that starts a    *)
(* session runs to its end in one step; one that stops a session suspends  *)
(* at `await routeDb.insertRoute(currentRoute)` (pc = "awaitInsert") and   *)
(* at `await updatePreviousRoutesList()` (pc = "awaitList"), and other     *)
(* handlers run meanwhile.  The map, marker and polyline belong to the     *)
(* Leaflet widget and are not part of the state.                           *)
(***************************************************************************)
\* the positions the location source reports
Positions == {[lat |-> 5200, lon |-> 1300], [lat |-> 5201, lon |-> 1301]}

RECURSIVE SumFrom(_, _)
SumFrom(values, i) ==
    IF i > Len(values) THEN Num(0)
    ELSE JsAdd(values[i], SumFrom(values, i + 1))

\* updatePreviousRoutesList: the totals of routesStats.innerHTML (the
\* numbers as they are before humanize rounds them)
StatsOf(routes) ==
    LET n == Len(routes)
    IN [totalLength |-> SumFrom([i \in 1..n |-> getLength(routes[i])], 1),
        totalDuration |->
            humanizeSeconds(SumFrom([i \in 1..n |-> getDuration(routes[i])], 1)),
        avgSpeed |-> JsDiv(SumFrom([i \in 1..n |-> getAvgSpeed(routes[i])], 1),
                           Num(n))]

\* updatePreviousRoutesList: one <h3> item per route of more than one point
HistoryOf(routes) ==
    LET shown == SelectSeq(routes, LAMBDA r : Len(r.coordinates) > 1)
    IN [i \in 1..Len(shown) |->
           [created |-> shown[i].created,
            distance |-> getLength(shown[i]),
            duration |-> humanizeSeconds(getDuration(shown[i]))]]

InitSession ==
    /\ clock \in Clocks
    /\ route = Route(Null, DateOf(0), <<>>, 0)
    /\ out = NoOutput
    /\ seconds = 0
    /\ dbExists = FALSE
    /\ store = <<>>
    /\ keyGen = 1
    /\ writer = 0
    /\ openConnections = 0
    /\ calls = [c \in Slots |-> IdleCall]
    /\ nCalls = 0
    /\ succeeded = <<>>
    /\ committedFrom = <<>>
    /\ hasGeolocation \in BOOLEAN
    /\ InitIdleSession

\* toggleTracking, not tracking, with geolocation: a new Route and a new
\* position watch
ToggleStart ==
    /\ ~isTracking
    /\ hasGeolocation
    /\ Len(routeObjects) < MaxSessions
    /\ button' = "Stop Tracking"
    /\ status' = "Tracking..."
    /\ routeObjects' = Append(routeObjects, Route(Undefined, Undefined, <<>>, clock))
    /\ currentRoute' = Len(routeObjects) + 1
    /\ watchId' = Len(routeObjects) + 1
    /\ watches' = watches \cup {Len(routeObjects) + 1}
    /\ isTracking' = TRUE
    /\ UNCHANGED <<routeVars, storeVars, hasGeolocation, alerted,
                   locationData, routeDescription, previousRoutes,
                   routesStats, frames, nStops, lastErrorAt>>

\* toggleTracking, not tracking, without geolocation: the alert
ToggleUnsupported ==
    /\ ~isTracking
    /\ ~hasGeolocation
    /\ alerted' = TRUE
    /\ UNCHANGED <<routeVars, storeVars, hasGeolocation, isTracking, watchId,
                   currentRoute, routeObjects, locationData, watches, status, button,
                   routeDescription, previousRoutes, routesStats, frames,
                   nStops, lastErrorAt>>

\* toggleTracking, tracking: up to `await routeDb.insertRoute(currentRoute)`
ToggleStop(f) ==
    /\ isTracking
    /\ frames[f].pc = "idle"
    /\ nStops < MaxStops
    /\ calls' = BeginInsert(calls, InsertSlot(f), routeObjects[currentRoute],
                            currentRoute)
    /\ frames' = [frames EXCEPT ![f] =
                     [pc |-> "awaitInsert", error |-> "", watch |-> watchId]]
    /\ nStops' = nStops + 1
    /\ UNCHANGED <<routeVars, dbExists, store, keyGen, writer,
                   openConnections, nCalls, succeeded, committedFrom,
                   hasGeolocation, alerted, isTracking, watchId, currentRoute,
                   routeObjects, locationData, watches, status, button,
                   routeDescription, previousRoutes, routesStats, lastErrorAt>>

\* toggleTracking resumes after insertRoute resolved: clearWatch(watchId),
\* then updatePreviousRoutesList up to `await routeDb.listRoutes()`
AfterInsert(f) ==
    /\ frames[f].pc = "awaitInsert"
    /\ calls[InsertSlot(f)].outcome = "resolved"
    /\ watches' = watches \ {watchId}
    /\ calls' = BeginList(calls, ListSlot(f))
    /\ frames' = [frames EXCEPT ![f].pc = "awaitList"]
    /\ UNCHANGED <<routeVars, dbExists, store, keyGen, writer,
                   openConnections, nCalls, succeeded, committedFrom,
                   hasGeolocation, alerted, isTracking, watchId, currentRoute,
                   routeObjects, locationData, status, button, routeDescription,
                   previousRoutes, routesStats, nStops, lastErrorAt>>

\* insertRoute rejected: the await throws and toggleTracking ends there
InsertThrows(f) ==
    /\ frames[f].pc = "awaitInsert"
    /\ calls[InsertSlot(f)].outcome = "rejected"
    /\ frames' = [frames EXCEPT ![f].pc = "done", ![f].error = "insert"]
    /\ UNCHANGED <<routeVars, storeVars, hasGeolocation, alerted, isTracking,
                   watchId, currentRoute, routeObjects, locationData, watches,
                   status, button, routeDescription, previousRoutes, routesStats,
                   nStops, lastErrorAt>>

\* updatePreviousRoutesList resumes with the routes, reversed, and renders
\* them; toggleTracking resumes after it and ends the session
AfterList(f) ==
    LET routes == reverse(calls[ListSlot(f)].routes)
    IN /\ frames[f].pc = "awaitList"
       /\ calls[ListSlot(f)].outcome = "resolved"
       /\ routesStats' = StatsOf(routes)
       /\ previousRoutes' = HistoryOf(routes)
       /\ button' = "Start Tracking"
       /\ status' = "Not tracking"
       /\ isTracking' = FALSE
       /\ frames' = [frames EXCEPT ![f].pc = "done"]
       /\ UNCHANGED <<routeVars, storeVars, hasGeolocation, alerted, watchId,
                      currentRoute, routeObjects, locationData, watches,
                      routeDescription, nStops, lastErrorAt>>

\* listRoutes rejected: updatePreviousRoutesList throws, and so does
\* toggleTracking
ListThrows(f) ==
    /\ frames[f].pc = "awaitList"
    /\ calls[ListSlot(f)].outcome = "rejected"
    /\ frames' = [frames EXCEPT ![f].pc = "done", ![f].error = "list"]
    /\ UNCHANGED <<routeVars, storeVars, hasGeolocation, alerted, isTracking,
                   watchId, currentRoute, routeObjects, locationData, watches,
                   status, button, routeDescription, previousRoutes, routesStats,
                   nStops, lastErrorAt>>

\* the invocation is over and its transactions have finished
FrameReturn(f) ==
    /\ frames[f].pc = "done"
    /\ calls[InsertSlot(f)].pc \in {"idle", "done"}
    /\ calls[ListSlot(f)].pc \in {"idle", "done"}
    /\ frames' = [frames EXCEPT ![f] = IdleFrame]
    /\ calls' = [calls EXCEPT ![InsertSlot(f)] = IdleCall,
                              ![ListSlot(f)] = IdleCall]
    /\ UNCHANGED <<routeVars, dbExists, store, keyGen, writer,
                   openConnections, nCalls, succeeded, committedFrom,
                   hasGeolocation, alerted, isTracking, watchId, currentRoute,
                   routeObjects, locationData, watches, status, button,
                   routeDescription, previousRoutes, routesStats, nStops,
                   lastErrorAt>>

LocationEventPrepend(w, pos) ==
    /\ w \in watches
    /\ Len(locationData) < MaxEvents
    /\ locationData' = Append(locationData, [lat |-> pos.lat, lng |-> pos.lon])
    /\ routeObjects' = [routeObjects EXCEPT ![currentRoute].coordinates =
                           <<Coordinate(pos.lat, pos.lon, Undefined, clock)>> \o @]
    /\ routeDescription' = toHtml(routeObjects'[currentRoute])
    /\ UNCHANGED <<routeVars, storeVars, hasGeolocation, alerted, isTracking,
                   watchId, currentRoute, watches, status, button, previousRoutes,
                   routesStats, frames, nStops, lastErrorAt>>

\* the watchPosition success callback (it never awaits, so it runs to its end
\* before any other handler): push to locationData, currentRoute.add,
\* updateRouteDescription
LocationEvent(w, pos) ==
    /\ w \in watches
    /\ Len(locationData) < MaxEvents
    /\ locationData' = Append(locationData, [lat |-> pos.lat, lng |-> pos.lon])
    /\ routeObjects' = [routeObjects EXCEPT ![currentRoute] =
                           add(@, pos.lat, pos.lon, Undefined, clock)]
    /\ routeDescription' = toHtml(routeObjects'[currentRoute])
    /\ UNCHANGED <<routeVars, storeVars, hasGeolocation, alerted, isTracking,
                   watchId, currentRoute, watches, status, button, previousRoutes,
                   routesStats, frames, nStops, lastErrorAt>>

LocationErrorEndsSession(w) ==
    /\ w \in watches
    /\ status' = "Error retrieving location"
    /\ lastErrorAt' = Len(locationData)
    /\ button' = button
    /\ isTracking' = FALSE
    /\ watches' = watches \ {w}
    /\ UNCHANGED <<routeVars, storeVars, hasGeolocation, alerted, watchId,
                   currentRoute, routeObjects, locationData, routeDescription,
                   previousRoutes, routesStats, frames, nStops>>

\* the watchPosition error callback: console.error and the status text
LocationError(w) ==
    /\ w \in watches
    /\ status' = "Error retrieving location"
    /\ lastErrorAt' = Len(locationData)
    /\ button' = button
    /\ UNCHANGED <<routeVars, storeVars, hasGeolocation, alerted, isTracking,
                   watchId, currentRoute, routeObjects, locationData, watches,
                   routeDescription, previousRoutes, routesStats, frames,
                   nStops>>

NextSession ==
    \/ ToggleStart
    \/ ToggleUnsupported
    \/ \E f \in Frames : ToggleStop(f)
    \/ \E f \in Frames : AfterInsert(f)
    \/ \E f \in Frames : InsertThrows(f)
    \/ \E f \in Frames : AfterList(f)
    \/ \E f \in Frames : ListThrows(f)
    \/ \E f \in Frames : FrameReturn(f)
    \/ \E w \in watches, pos \in Positions : LocationEvent(w, pos)
    \/ \E w \in watches : LocationError(w)
    \/ \E c \in Slots : OpenSuccess(c)
    \/ \E c \in Slots : OpenError(c)
    \/ \E c \in Slots : AddSuccess(c)
    \/ \E c \in Slots, cause \in {"ConstraintError", "UnknownError"} :
           AddError(c, cause)
    \/ \E c \in Slots : Commit(c)
    \/ \E c \in Slots : AbortOnCommit(c)
    \/ \E c \in Slots : GetAllSuccess(c)
    \/ \E c \in Slots : GetAllError(c)

SpecSession == InitSession /\ [][NextSession]_vars

(***************************************************************************)
(* Properties.                                                             *)
(***************************************************************************)
InsertCalls == {c \in Callers : calls[c].kind = "insert"}

\* no RouteDatabase call is waiting for its promise to settle
NoCallInFlight == \A c \in Callers : calls[c].pc \notin {"opening", "request"}

\* how many elements of sequence q satisfy having the points cs
CountTrack(q, cs) == Cardinality({i \in 1..Len(q) : q[i].coordinates = cs})

\* C1: the record insertRoute stores carries an id drawn from the store's
\* generator, never the id the caller's route carried, and an insert is
\* never refused because the route's id is already taken
C1_InsertAssignsFreshId ==
    \A c \in InsertCalls :
        /\ calls[c].cause # "ConstraintError"
        /\ calls[c].committed = 1 =>
              /\ calls[c].keySrc = "generator"
              /\ store[calls[c].key.n].id # calls[c].record.id

\* C2: whenever no insertRoute or listRoutes call is in flight, every
\* connection the calls opened has been closed
C2_ConnectionsReleased == NoCallInFlight => openConnections = 0

\* C3: when listRoutes resolves, it returns exactly one route per insertRoute
\* that resolved before, with that route's point sequence
C3_ListReturnsInserted ==
    [][\A c \in Callers :
          (/\ calls[c].kind = "list"
           /\ calls[c].pc = "request"
           /\ calls'[c].pc = "done"
           /\ calls'[c].outcome = "resolved")
          => /\ Len(calls'[c].routes) = Len(succeeded)
             /\ \A cs \in Tracks :
                   CountTrack(calls'[c].routes, cs) = CountTrack(succeeded, cs)
      ]_vars

\* C4: the ids of the persisted records are pairwise distinct, every id was
\* assigned by the store's generator, and each successful insert receives an
\* id greater than every id assigned before it
C4_IdsUniqueMonotonic ==
    /\ \A j, k \in DOMAIN store : store[j].id = store[k].id => j = k
    /\ \A i \in 1..Len(succeeded) : succeeded[i].src = "generator"
    /\ \A i, j \in 1..Len(succeeded) :
          i < j => succeeded[i].key < succeeded[j].key

\* C5: the value a successful insertRoute resolves with is the id the store
\* assigned to the new record
C5_InsertReturnsId ==
    \A c \in InsertCalls :
        calls[c].outcome = "resolved" => calls[c].value = calls[c].key

\* C6: an insertRoute that rejected has committed nothing, and one that
\* resolved has committed exactly one record once its transaction is over
C6_InsertAllOrNothing ==
    \A c \in InsertCalls :
        calls[c].pc = "done" =>
            /\ calls[c].outcome = "rejected" => calls[c].committed = 0
            /\ calls[c].outcome = "resolved" => calls[c].committed = 1

\* C7: a call in which the storage layer failed (open, request or
\* transaction) has rejected, and the rejection carries that failure
C7_FailureRejects ==
    \A c \in Callers :
        (calls[c].pc = "done" /\ calls[c].failure # "") =>
            /\ calls[c].outcome = "rejected"
            /\ calls[c].cause = calls[c].failure

\* C8: fromPlainObject applied to the record insertRoute builds from a route
\* yields a Route with the same id, the same created date and the same
\* sequence of (lat, lon, timestamp) points
C8_RoundTripLossless ==
    out.op = "roundTrip" =>
        /\ out.value.id = route.id
        /\ out.value.created = route.created
        /\ out.value.coordinates = route.coordinates

\* a route with the falsy id 0 and a point stamped at the epoch went through
\* the round trip
C8_Witness ==
    /\ out.op = "roundTrip"
    /\ route.id = Num(0)
    /\ Len(route.coordinates) >= 1
    /\ route.coordinates[1].timestamp = DateOf(0)
    /\ out.value.id = Num(0)

\* C9: for a Route with fewer than 2 points getLength, getDuration and
\* getAvgSpeed all return 0
C9_ShortRouteMetricsZero ==
    (Len(route.coordinates) < 2
        /\ out.op \in {"getLength", "getDuration", "getAvgSpeed"})
    => out.value = Num(0)

\* getAvgSpeed returned 0 for a route of one point
C9_Witness ==
    /\ Len(route.coordinates) = 1
    /\ out.op = "getAvgSpeed"
    /\ out.value = Num(0)

\* C10: for a Route of 2 or more points whose first and last timestamps are
\* equal, getAvgSpeed returns 0
C10_ZeroDurationSpeedZero ==
    (/\ out.op = "getAvgSpeed"
     /\ Len(route.coordinates) >= 2
     /\ getDuration(route) = Num(0))
    => out.value = Num(0)

\* the first k elements of sequence q (all of it when it is shorter)
Take(q, k) == SubSeq(q, 1, IF Len(q) < k THEN Len(q) ELSE k)

\* C11: toHtml lists exactly the min(n, 9) most recently added points, the
\* last added first, and renders the elision item if and only if n > 9
C11_HtmlListsLastNine ==
    out.op = "toHtml" =>
        /\ out.value.items = Take(reverse(route.coordinates), 9)
        /\ out.value.ellipsis <=> Len(route.coordinates) > 9

\* the components humanizeSeconds is to list for s seconds: the quotients of
\* the successive divisions by 86400, 3600, 60 and 1, the zero ones left out
Components(s) ==
    SelectSeq(<<[amount |-> s \div 86400, unit |-> "d"],
                [amount |-> (s % 86400) \div 3600, unit |-> "h"],
                [amount |-> (s % 3600) \div 60, unit |-> "m"],
                [amount |-> s % 60, unit |-> "s"]>>,
              LAMBDA part : part.amount # 0)

UnitSeconds(unit) ==
    CASE unit = "d" -> 86400 [] unit = "h" -> 3600 [] unit = "m" -> 60
      [] OTHER -> 1

RECURSIVE TotalSeconds(_)
TotalSeconds(parts) ==
    IF parts = <<>> THEN 0
    ELSE Head(parts).amount * UnitSeconds(Head(parts).unit)
         + TotalSeconds(Tail(parts))

\* C12: for a non-negative whole number of seconds humanizeSeconds lists the
\* non-zero components d, h, m, s in that order, they add up to the input
\* with h < 24, m < 60, s < 60; 0 gives "" and 3661 gives "1 h, 1 m, 1 s"
C12_HumanizeSecondsDecomposes ==
    out.op = "humanizeSeconds" =>
        /\ out.value = Components(seconds)
        /\ TotalSeconds(out.value) = seconds
        /\ \A i \in 1..Len(out.value) :
              /\ out.value[i].amount > 0
              /\ out.value[i].unit = "h" => out.value[i].amount < 24
              /\ out.value[i].unit \in {"m", "s"} => out.value[i].amount < 60
        /\ seconds = 0 => out.value = <<>>
        /\ seconds = 3661 =>
              out.value = <<[amount |-> 1, unit |-> "h"],
                            [amount |-> 1, unit |-> "m"],
                            [amount |-> 1, unit |-> "s"]>>

\* humanizeSeconds(90061) returned "1 d, 1 h, 1 m, 1 s"
C12_Witness ==
    /\ out.op = "humanizeSeconds"
    /\ seconds = 90061
    /\ Len(out.value) = 4
    /\ out.value[1] = [amount |-> 1, unit |-> "d"]

\* C13: Route.add appends exactly one point at the end of the sequence, and
\* the point carries the caller's timestamp when one is supplied, the
\* current time only when none is
C13_AddKeepsSuppliedTimestamp ==
    out.op = "add" =>
        LET n == Len(route.coordinates)
        IN /\ Len(out.value.coordinates) = n + 1
           /\ SubSeq(out.value.coordinates, 1, n) = route.coordinates
           /\ out.value.coordinates[n + 1].timestamp =
                 IF out.timestamp = Undefined THEN DateOf(clock)
                 ELSE out.timestamp

\* C14: once a stop has cleared the subscription and the record it inserted
\* is in the store, the record holds every point of the session's in-memory
\* route, in order
C14_RecordHoldsEveryPoint ==
    \A f \in Frames :
        LET call == calls[InsertSlot(f)]
        IN (frames[f].pc = "awaitList" /\ call.committed = 1) =>
              store[call.key.n].coordinates =
                  routeObjects[call.ref].coordinates

\* C15: the error callback leaves isTracking, the watch and the routes as
\* they are; only a stop invocation of toggleTracking clears the watch or
\* resets isTracking; and an event delivered while the error is displayed is
\* appended to the current route, whose created date stays
C15_ErrorKeepsSession ==
    [][/\ lastErrorAt' # lastErrorAt =>
             /\ isTracking' = isTracking
             /\ watchId' = watchId
             /\ watches' = watches
             /\ currentRoute' = currentRoute
             /\ routeObjects' = routeObjects
       /\ (isTracking /\ ~isTracking') =>
             \E f \in Frames :
                 frames[f].pc = "awaitList" /\ frames'[f].pc = "done"
       /\ ~(watches \subseteq watches') =>
             \E f \in Frames :
                 frames[f].pc = "awaitInsert" /\ frames'[f].pc = "awaitList"
       /\ (status = "Error retrieving location"
             /\ Len(locationData') = Len(locationData) + 1) =>
             LET before == routeObjects[currentRoute]
                 after == routeObjects'[currentRoute]
                 event == locationData'[Len(locationData')]
                 n == Len(before.coordinates)
             IN /\ currentRoute' = currentRoute
                /\ after.created = before.created
                /\ Len(after.coordinates) = n + 1
                /\ SubSeq(after.coordinates, 1, n) = before.coordinates
                /\ after.coordinates[n + 1].lat = event.lat
                /\ after.coordinates[n + 1].lon = event.lng
      ]_vars

\* the first session got an error before any event, then two events, and is
\* still tracking with its watch
C15_Witness ==
    /\ lastErrorAt = 0
    /\ status = "Error retrieving location"
    /\ Len(locationData) = 2
    /\ currentRoute = 1
    /\ Len(routeObjects[1].coordinates) = 2
    /\ isTracking
    /\ watchId \in watches

\* C16: when a listRoutes called after an insertRoute resolved, and before
\* any later insert resolves, itself resolves, the route of that insert is
\* the last element of the list, it has the highest id, and it is the first
\* element of the reversed list
C16_ListEndsWithLastInserted ==
    [][\A c \in Callers :
          (/\ calls[c].kind = "list"
           /\ calls[c].pc = "request"
           /\ calls'[c].pc = "done"
           /\ calls'[c].outcome = "resolved"
           /\ succeeded # <<>>
           /\ calls[c].after = Len(succeeded))
          => LET routes == calls'[c].routes
                 inserted == succeeded[Len(succeeded)]
             IN /\ routes # <<>>
                /\ routes[Len(routes)].id = Num(inserted.key)
                /\ routes[Len(routes)].coordinates = inserted.coordinates
                /\ \A i \in 1..(Len(routes) - 1) :
                      routes[i].id.n < inserted.key
                /\ reverse(routes)[1].id = Num(inserted.key)
      ]_vars

\* the events the routes hold, route after route, as locationData entries
RECURSIVE Delivered(_)
Delivered(r) ==
    IF r = 0 THEN <<>>
    ELSE Delivered(r - 1) \o
         [i \in 1..Len(routeObjects[r].coordinates) |->
             [lat |-> routeObjects[r].coordinates[i].lat,
              lng |-> routeObjects[r].coordinates[i].lon]]

\* C17: the points of the routes are exactly the delivered location events
\* in delivery order, none lost, duplicated or reordered, and the route
\* description shows the current route with all the points it has
C17_PointsAreDeliveredEvents ==
    /\ Delivered(Len(routeObjects)) = locationData
    /\ (currentRoute # 0 /\ routeObjects[currentRoute].coordinates # <<>>) =>
          routeDescription = toHtml(routeObjects[currentRoute])

\* two different positions were delivered to the first session
C17_Witness ==
    /\ Len(locationData) = 2
    /\ locationData[1] # locationData[2]
    /\ currentRoute = 1
    /\ Len(routeObjects[1].coordinates) = 2

\* C18: a stop invocation of toggleTracking that has come to its end,
\* whatever became of its insertRoute, has cleared the watch it was invoked
\* to stop
C18_StopClearsWatch ==
    \A f \in Frames :
        frames[f].pc = "done" => frames[f].watch \notin watches

\* C19: no Route of a tracking session has been committed to the store more
\* than once
C19_OneRecordPerSession ==
    \A r \in 1..Len(routeObjects) :
        Cardinality({i \in 1..Len(committedFrom) : committedFrom[i] = r}) <= 1

\* C20: isTracking is true exactly when a watch registered by watchPosition
\* has not been cleared
C20_TrackingIffWatchActive == isTracking <=> watches # {}

=============================================================================
